---- MODULE Spec2Model ----
(***************************************************************************)
(* Resume screening pipeline: structured extraction (parsing_agent.py),    *)
(* evaluation (evaluation_agent.py) and batch orchestration (app.py).      *)
(*                                                                         *)
(* Every Python str is a sequence of tokens.  A token is either a single   *)
(* character (" ", "\n", ":", "-", "*", "{", "a", ...) or an atomic word   *)
(* whose length in characters is given by WordLen.                         *)
(***************************************************************************)
EXTENDS Integers, Sequences, FiniteSets, TLC

VARIABLES
    GEMINI_CLIENT,    \* utils.GEMINI_CLIENT: TRUE when the client was constructed
    jd_text,          \* process_resumes argument
    uploaded_files,   \* process_resumes argument, with each file's environment behaviour
    llm_jd,           \* what the backend does on the job-description request
    uploads,          \* names of the files present in UPLOAD_DIR
    uploads0,         \* UPLOAD_DIR when process_resumes was entered
    job_requirements, \* local of process_resumes
    results,          \* local of process_resumes: accumulated rows
    idx,              \* position of the per-resume loop
    pc,               \* position in process_resumes
    df,               \* the returned table
    st_error,         \* message shown by st.error
    calls,            \* the agent calls, LLM requests and file saves so far, in order
    op,               \* unit runs: the function that was applied ("idle" before)
    arg,              \* unit runs: its input
    ret               \* unit runs: its result

vars == <<GEMINI_CLIENT, jd_text, uploaded_files, llm_jd, uploads, uploads0,
          job_requirements, results, idx, pc, df, st_error, calls, op, arg, ret>>

batch_vars == <<GEMINI_CLIENT, jd_text, uploaded_files, llm_jd, uploads, uploads0,
                job_requirements, results, idx, pc, df, st_error, calls>>

unit_vars == <<op, arg, ret>>

-----------------------------------------------------------------------------
(* Python values *)

None == [kind |-> "None", val |-> <<>>]

Str(s) == [kind |-> "str", val |-> s]

\* a value that is not a str (e.g. an SDK Content object)
Obj == [kind |-> "obj", val |-> <<>>]

\* Python truthiness of None / str / object
Truthy(v) == v.kind = "obj" \/ (v.kind = "str" /\ v.val # <<>>)

\* a or b
Or(a, b) == IF Truthy(a) THEN a ELSE b

WS == {" ", "\n"}

\* number of characters of a token
WordLen(t) ==
    CASE t = "Error" -> 5
      [] t = "reading" -> 7
      [] t = "PDF:" -> 4
      [] t = "DOCX:" -> 5
      [] t = "corrupt" -> 7
      [] t = "ExperiencedPythonDeveloper" -> 26
      [] t = "SeniorDataEngineerResume" -> 24
      [] t = "Responsibilities" -> 16
      [] t = "RESPONSIBILITIES" -> 16
      [] t = "Duties" -> 6
      [] t = "Core" -> 4
      [] t = "Key" -> 3
      [] OTHER -> 1

RECURSIVE StrLen(_)
\* len(s)
StrLen(s) == IF s = <<>> THEN 0 ELSE WordLen(Head(s)) + StrLen(Tail(s))

\* s.strip()
Strip(s) ==
    LET ink == {k \in 1..Len(s) : s[k] \notin WS}
    IN  IF ink = {} THEN <<>>
        ELSE LET a == CHOOSE k \in ink : \A j \in ink : k <= j
                 b == CHOOSE k \in ink : \A j \in ink : k >= j
             IN  SubSeq(s, a, b)

\* s.splitlines()
splitlines(s) ==
    LET nl == {k \in 1..Len(s) : s[k] = "\n"}
        n  == Cardinality(nl)
        \* position of the i-th line break; Len(s)+1 closes the last line
        brk(i) == IF i = 0 THEN 0
                  ELSE IF i > n THEN Len(s) + 1
                  ELSE CHOOSE k \in nl : Cardinality({j \in nl : j < k}) = i - 1
        cnt == IF n > 0 /\ brk(n) = Len(s) THEN n ELSE n + 1
    IN  IF s = <<>> THEN <<>>
        ELSE [i \in 1..cnt |-> SubSeq(s, brk(i - 1) + 1, brk(i) - 1)]

\* [ln.strip() for ln in s.splitlines() if ln.strip()]
StrippedLines(s) ==
    LET ls == splitlines(s)
        st == [i \in 1..Len(ls) |-> Strip(ls[i])]
    IN  SelectSeq(st, LAMBDA ln : ln # <<>>)

\* len(s.split())
WordCount(s) ==
    Cardinality({k \in 1..Len(s) : s[k] \notin WS /\ (k = 1 \/ s[k - 1] \in WS)})

\* s[:n] for a list
Take(s, n) == SubSeq(s, 1, IF Len(s) < n THEN Len(s) ELSE n)

RECURSIVE Join(_, _)
\* sep.join(ls)
Join(ls, sep) ==
    IF ls = <<>> THEN <<>>
    ELSE IF Len(ls) = 1 THEN ls[1]
    ELSE ls[1] \o sep \o Join(Tail(ls), sep)

-----------------------------------------------------------------------------
(* Backend replies *)

\* A response object.  absent: the call returned None.  candidates and output
\* are lists of items [dictlike, content]; an empty list is a missing or empty
\* attribute.
Response(text, candidates, output, content) ==
    [absent |-> FALSE, text |-> text, candidates |-> candidates,
     output |-> output, content |-> content]

NoResponse ==
    [absent |-> TRUE, text |-> None, candidates |-> <<>>, output |-> <<>>,
     content |-> None]

Item(dictlike, content) == [dictlike |-> dictlike, content |-> content]

TextReply(s) == Response(Str(s), <<>>, <<>>, None)

\* response.candidates[0] branch; falls marks the AttributeError swallowed by
\* the try block, after which the next shape is probed
candidates_probe(response) ==
    LET cand0 == response.candidates[1]
    IN  IF cand0.dictlike
        THEN [falls |-> FALSE, val |-> cand0.content]
        ELSE IF Truthy(cand0.content)
             THEN [falls |-> FALSE, val |-> cand0.content]
             ELSE [falls |-> TRUE, val |-> None]

\* response.output[0] branch
output_probe(response) ==
    LET out0 == response.output[1]
    IN  IF out0.dictlike
        THEN out0.content
        ELSE Or(out0.content, None)

extract_response_text(response) ==
    IF response.absent THEN None
    ELSE IF Truthy(response.text) THEN response.text
    ELSE IF response.candidates # <<>> /\ ~candidates_probe(response).falls
         THEN candidates_probe(response).val
    ELSE IF response.output # <<>> THEN output_probe(response)
    ELSE IF Truthy(response.content) THEN response.content
    ELSE None

-----------------------------------------------------------------------------
(* JSON text.  Tokens: the brackets, "key:" tokens standing for a member     *)
(* name with its colon, scalar literals, " " and "\n" for white space and    *)
(* any other token for prose.  Commas are left out.                          *)

Keys == {"job_title:", "must_have_skills:", "good_to_have_skills:",
         "min_years_experience:", "core_responsibilities:",
         "candidate_name:", "total_experience_years:", "skills:",
         "work_experience_summary:",
         "final_score:", "status:", "quantitative_gaps:", "recruiter_rationale:"}

\* string literals and the str each one decodes to
StrDecode(t) ==
    CASE t = "$" -> <<>>
      [] t = "$Jane" -> <<"Jane">>
      [] t = "$Engineer" -> <<"Engineer">>
      [] t = "$ErrorAnalyst" -> <<"Error", " ", "Analyst">>
      [] t = "$Accepted" -> <<"Accepted">>
      [] t = "$Rejected" -> <<"Rejected">>
      [] t = "$python" -> <<"python">>
      [] t = "$build" -> <<"build">>
      [] t = "$summary" -> <<"summary">>

StrLits == {"$", "$Jane", "$Engineer", "$ErrorAnalyst", "$Accepted", "$Rejected",
            "$python", "$build", "$summary"}

\* number literals and their values
NumDecode(t) ==
    CASE t = "#0" -> 0
      [] t = "#3" -> 3
      [] t = "#40" -> 40
      [] t = "#50" -> 50
      [] t = "#75" -> 75
      [] t = "#76" -> 76
      [] t = "#90" -> 90

NumLits == {"#0", "#3", "#40", "#50", "#75", "#76", "#90"}

Scalars == StrLits \cup NumLits \cup {"null"}

RECURSIVE ValueEnd(_, _), ElemsEnd(_, _), MembersEnd(_, _)
\* the index after the JSON value that starts at t[p]; 0 when there is none
ValueEnd(t, p) ==
    IF p > Len(t) THEN 0
    ELSE IF t[p] \in Scalars THEN p + 1
    ELSE IF t[p] = "[" THEN ElemsEnd(t, p + 1)
    ELSE IF t[p] = "{" THEN MembersEnd(t, p + 1)
    ELSE 0

ElemsEnd(t, p) ==
    IF p > Len(t) THEN 0
    ELSE IF t[p] = "]" THEN p + 1
    ELSE LET e == ValueEnd(t, p)
         IN  IF e = 0 THEN 0 ELSE ElemsEnd(t, e)

MembersEnd(t, p) ==
    IF p > Len(t) THEN 0
    ELSE IF t[p] = "}" THEN p + 1
    ELSE IF t[p] \in Keys
         THEN LET e == ValueEnd(t, p + 1)
              IN  IF e = 0 THEN 0 ELSE MembersEnd(t, e)
    ELSE 0

\* json.loads(text): ok is FALSE when it raises; val is the value read, written
\* as its tokens without white space
json_loads(text) ==
    LET t == SelectSeq(text, LAMBDA c : c \notin WS)
    IN  IF t # <<>> /\ ValueEnd(t, 1) = Len(t) + 1
        THEN [ok |-> TRUE, val |-> t]
        ELSE [ok |-> FALSE, val |-> <<>>]

\* a parsed value as the Python value the caller sees: JSON null is None
Parsed(r) == IF r.val = <<"null">> THEN None ELSE Str(r.val)

\* text.find(c) and text.rfind(c); 0 stands for -1
find(text, c) ==
    IF \E k \in 1..Len(text) : text[k] = c
    THEN CHOOSE k \in 1..Len(text) : text[k] = c /\ \A j \in 1..(k - 1) : text[j] # c
    ELSE 0

rfind(text, c) ==
    IF \E k \in 1..Len(text) : text[k] = c
    THEN CHOOSE k \in 1..Len(text) : text[k] = c /\ \A j \in (k + 1)..Len(text) : text[j] # c
    ELSE 0

\* the slice text[first : last + 1] parsed, when the guard of the step holds
substring_parse(text, open, close) ==
    LET first == find(text, open)
        last  == rfind(text, close)
    IN  IF first # 0 /\ last # 0 /\ last > first
        THEN json_loads(SubSeq(text, first, last))
        ELSE [ok |-> FALSE, val |-> <<>>]

safe_parse_json(text0) ==
    IF text0 = <<>> THEN None
    ELSE LET text == Strip(text0)
             whole == json_loads(text)
             obj == substring_parse(text, "{", "}")
             arr == substring_parse(text, "[", "]")
         IN  IF whole.ok THEN Parsed(whole)
             ELSE IF obj.ok THEN Parsed(obj)
             ELSE IF arr.ok THEN Parsed(arr)
             ELSE None

-----------------------------------------------------------------------------
(* models.py: the record types and their validation *)

JobRequirements(job_title, must_have_skills, good_to_have_skills, min_years_experience, core_responsibilities) ==
    [job_title |-> job_title, must_have_skills |-> must_have_skills,
     good_to_have_skills |-> good_to_have_skills,
     min_years_experience |-> min_years_experience,
     core_responsibilities |-> core_responsibilities]

CandidateProfile(candidate_name, total_experience_years, skills, work_experience_summary) ==
    [candidate_name |-> candidate_name,
     total_experience_years |-> total_experience_years, skills |-> skills,
     work_experience_summary |-> work_experience_summary]

EvaluationResult(candidate_name, final_score, status, quantitative_gaps, recruiter_rationale) ==
    [candidate_name |-> candidate_name, final_score |-> final_score,
     status |-> status, quantitative_gaps |-> quantitative_gaps,
     recruiter_rationale |-> recruiter_rationale]

RECURSIVE MembersFrom(_, _, _)
\* the members of the object whose tokens are t, read from position p: each
\* key's value tokens (a later member of the same name replaces an earlier one)
MembersFrom(t, p, acc) ==
    IF t[p] = "}" THEN acc
    ELSE LET e == ValueEnd(t, p + 1)
         IN  MembersFrom(t, e, [acc EXCEPT ![t[p]] = SubSeq(t, p + 1, e - 1)])

\* a key that is missing has the empty value
Members(t) == MembersFrom(t, 2, [k \in Keys |-> <<>>])

IsObject(t) == t # <<>> /\ t[1] = "{"

IsStrValue(v) == Len(v) = 1 /\ v[1] \in StrLits

IsNumValue(v) == Len(v) = 1 /\ v[1] \in NumLits

IsStrList(v) ==
    /\ Len(v) >= 2
    /\ v[1] = "[" /\ v[Len(v)] = "]"
    /\ \A k \in 2..(Len(v) - 1) : v[k] \in StrLits

StrListOf(v) == [k \in 1..(Len(v) - 2) |-> StrDecode(v[k + 1])]

NoRecord == [none |-> TRUE]

\* JobRequirements.model_validate(value): every field is required
validate_JobRequirements(t) ==
    IF ~IsObject(t) THEN [ok |-> FALSE, rec |-> NoRecord]
    ELSE LET m == Members(t)
         IN  IF /\ IsStrValue(m["job_title:"])
                /\ IsStrList(m["must_have_skills:"])
                /\ IsStrList(m["good_to_have_skills:"])
                /\ IsNumValue(m["min_years_experience:"])
                /\ IsStrList(m["core_responsibilities:"])
             THEN [ok |-> TRUE,
                   rec |-> JobRequirements(
                       StrDecode(m["job_title:"][1]),
                       StrListOf(m["must_have_skills:"]),
                       StrListOf(m["good_to_have_skills:"]),
                       NumDecode(m["min_years_experience:"][1]),
                       StrListOf(m["core_responsibilities:"]))]
             ELSE [ok |-> FALSE, rec |-> NoRecord]

\* CandidateProfile.model_validate(value)
validate_CandidateProfile(t) ==
    IF ~IsObject(t) THEN [ok |-> FALSE, rec |-> NoRecord]
    ELSE LET m == Members(t)
         IN  IF /\ IsStrValue(m["candidate_name:"])
                /\ IsNumValue(m["total_experience_years:"])
                /\ IsStrList(m["skills:"])
                /\ IsStrValue(m["work_experience_summary:"])
             THEN [ok |-> TRUE,
                   rec |-> CandidateProfile(
                       StrDecode(m["candidate_name:"][1]),
                       NumDecode(m["total_experience_years:"][1]),
                       StrListOf(m["skills:"]),
                       StrDecode(m["work_experience_summary:"][1]))]
             ELSE [ok |-> FALSE, rec |-> NoRecord]

\* EvaluationResult.model_validate(value): no validator relates status and
\* final_score
validate_EvaluationResult(t) ==
    IF ~IsObject(t) THEN [ok |-> FALSE, rec |-> NoRecord]
    ELSE LET m == Members(t)
         IN  IF /\ IsStrValue(m["candidate_name:"])
                /\ IsNumValue(m["final_score:"])
                /\ IsStrValue(m["status:"])
                /\ IsStrList(m["quantitative_gaps:"])
                /\ IsStrValue(m["recruiter_rationale:"])
             THEN [ok |-> TRUE,
                   rec |-> EvaluationResult(
                       StrDecode(m["candidate_name:"][1]),
                       NumDecode(m["final_score:"][1]),
                       StrDecode(m["status:"][1]),
                       StrListOf(m["quantitative_gaps:"]),
                       StrDecode(m["recruiter_rationale:"][1]))]
             ELSE [ok |-> FALSE, rec |-> NoRecord]

\* X.model_validate_json(text): the text must be one JSON value
JobRequirements_validate_json(text) ==
    IF json_loads(text).ok THEN validate_JobRequirements(json_loads(text).val)
    ELSE [ok |-> FALSE, rec |-> NoRecord]

CandidateProfile_validate_json(text) ==
    IF json_loads(text).ok THEN validate_CandidateProfile(json_loads(text).val)
    ELSE [ok |-> FALSE, rec |-> NoRecord]

EvaluationResult_validate_json(text) ==
    IF json_loads(text).ok THEN validate_EvaluationResult(json_loads(text).val)
    ELSE [ok |-> FALSE, rec |-> NoRecord]

-----------------------------------------------------------------------------
(* parsing_agent.py: heuristics *)

HeaderWords == {"Responsibilities", "RESPONSIBILITIES", "responsibilities",
                "Duties", "duties"}

BulletMarkers == {"-", "*"}

SnippetLen == 1000

MaxBullets == 8

MaxFallbackLines == 6

RECURSIVE SkipWS(_, _)
\* \s* from position p: the position of the first token that is not white space
SkipWS(s, p) == IF p <= Len(s) /\ s[p] \in WS THEN SkipWS(s, p + 1) ELSE p

\* re.search(pat, jd_text, re.IGNORECASE): 0 when there is no match, else
\* m.end() as the number of tokens the match ends after.  The leftmost match
\* ends with the first header word, then \s*[:\-]?\s*
header_match_end(s) ==
    LET hs == {k \in 1..Len(s) : s[k] \in HeaderWords}
    IN  IF hs = {} THEN 0
        ELSE LET h  == CHOOSE k \in hs : \A j \in hs : k <= j
                 p1 == SkipWS(s, h + 1)
                 p2 == IF p1 <= Len(s) /\ s[p1] \in {":", "-"} THEN p1 + 1 ELSE p1
             IN  SkipWS(s, p2) - 1

\* re.match(r"^[-*]\s+", ln)
is_bullet(ln) == Len(ln) >= 2 /\ ln[1] \in BulletMarkers /\ ln[2] \in WS

\* re.sub(r"^[-*]\s*", "", ln)
strip_marker(ln) ==
    IF ln # <<>> /\ ln[1] \in BulletMarkers
    THEN SubSeq(ln, SkipWS(ln, 2), Len(ln))
    ELSE ln

RECURSIVE collect_bullets(_, _, _)
\* the for loop over the lines after the header
collect_bullets(lines, k, bullets) ==
    IF k > Len(lines) THEN bullets
    ELSE LET ln == lines[k]
             b  == IF is_bullet(ln) THEN Append(bullets, strip_marker(ln))
                   ELSE IF WordCount(ln) >= 3 THEN Append(bullets, ln)
                   ELSE bullets
         IN  IF Len(b) >= MaxBullets THEN b ELSE collect_bullets(lines, k + 1, b)

heuristic_extract_core_responsibilities_from_text(text) ==
    LET start   == header_match_end(text)
        stop    == IF Len(text) < start + SnippetLen THEN Len(text)
                   ELSE start + SnippetLen
        snippet == SubSeq(text, start + 1, stop)
        bullets == collect_bullets(StrippedLines(snippet), 1, <<>>)
        hdr     == \E k \in 1..Len(text) : text[k] \in HeaderWords
    IN  IF text = <<>> THEN <<>>
        ELSE IF hdr /\ bullets # <<>> THEN bullets
        ELSE Take(StrippedLines(text), MaxFallbackLines)

NO_RESUME_TEXT == <<"No", " ", "resume", " ", "text", " ", "to", " ", "summarize.">>

heuristic_summarize_resume(resume_text) ==
    LET lines == StrippedLines(resume_text)
    IN  IF resume_text = <<>> \/ lines = <<>> THEN NO_RESUME_TEXT
        ELSE Join(Take(lines, MaxFallbackLines), <<" ">>)

-----------------------------------------------------------------------------
(* parsing_agent.py: the two extraction functions *)

\* What GEMINI_CLIENT.models.generate_content does on one request: it raises,
\* or it returns a response
Raises == [raises |-> TRUE, response |-> NoResponse]

Returns(response) == [raises |-> FALSE, response |-> response]

API_ERROR == <<"API", " ", "error">>

NO_TEXT == <<"No textual response returned by Gemini client.">>

NOT_A_STR == <<"object has no attribute 'strip'">>

\* the outcome of a function or of a try block: a returned value, or an
\* exception with its message; via names the return statement taken
Return(value, via) == [raised |-> FALSE, exc |-> <<>>, value |-> value, via |-> via]

Raise(exc) == [raised |-> TRUE, exc |-> exc, value |-> NoRecord, via |-> "raise"]

\* xs, left empty when it is empty
OrList_keep_empty(xs, default) == xs

\* xs or [default]
OrList(xs, default) == IF xs # <<>> THEN xs ELSE <<default>>

\* a try block that gives up when the literal reply does not validate
jd_try_literal_only(text, llm) ==
    IF llm.raises THEN Raise(API_ERROR)
    ELSE IF ~Truthy(extract_response_text(llm.response)) THEN Raise(NO_TEXT)
    ELSE IF extract_response_text(llm.response).kind # "str" THEN Raise(NOT_A_STR)
    ELSE IF JobRequirements_validate_json(extract_response_text(llm.response).val).ok
    THEN Return(JobRequirements_validate_json(
                    extract_response_text(llm.response).val).rec, "literal")
    ELSE Return(JobRequirements(
                    <<"(parsed", " ", "with", " ", "fallback)">>, <<>>, <<>>, 0,
                    OrList(heuristic_extract_core_responsibilities_from_text(text),
                           <<"Could not recover responsibilities">>)),
                "fallback")

\* parse_job_description, the body of the try block
jd_try(text, llm) ==
    IF llm.raises THEN Raise(API_ERROR)
    ELSE LET response_text == extract_response_text(llm.response)
         IN  IF ~Truthy(response_text) THEN Raise(NO_TEXT)
             ELSE IF response_text.kind # "str" THEN Raise(NOT_A_STR)
             ELSE LET parsed   == safe_parse_json(response_text.val)
                      literal  == JobRequirements_validate_json(response_text.val)
                      fromdict == validate_JobRequirements(parsed.val)
                  IN  IF parsed # None /\ literal.ok THEN Return(literal.rec, "literal")
                      ELSE IF parsed # None /\ fromdict.ok
                           THEN Return(fromdict.rec, "parsed")
                      ELSE Return(
                               JobRequirements(
                                   <<"(parsed", " ", "with", " ", "fallback)">>,
                                   <<>>, <<>>, 0,
                                   OrList(heuristic_extract_core_responsibilities_from_text(text),
                                          <<"Could not recover responsibilities">>)),
                               "fallback")

\* parse_job_description, the except block
jd_except(text, e) ==
    Return(JobRequirements(
               <<"Parsing", " ", "Failed">>, <<>>, <<>>, 0,
               OrList(heuristic_extract_core_responsibilities_from_text(text),
                      <<"Error:", " ">> \o e)),
           "except")

\* the try block without its except clause
parse_job_description_unguarded(text, client, llm) ==
    IF ~client
    THEN Return(JobRequirements(<<"Error">>, <<>>, <<>>, 0,
                                <<<<"Gemini client not initialized">>>>),
                "no client")
    ELSE jd_try(text, llm)

parse_job_description(text, client, llm) ==
    IF ~client
    THEN Return(JobRequirements(<<"Error">>, <<>>, <<>>, 0,
                                <<<<"Gemini client not initialized">>>>),
                "no client")
    ELSE LET r == jd_try(text, llm)
         IN  IF r.raised THEN jd_except(text, r.exc) ELSE r

\* parse_candidate_profile, the body of the try block
profile_try(resume_text, file_name, llm) ==
    IF llm.raises THEN Raise(API_ERROR)
    ELSE LET response_text == extract_response_text(llm.response)
         IN  IF ~Truthy(response_text) THEN Raise(NO_TEXT)
             ELSE IF response_text.kind # "str" THEN Raise(NOT_A_STR)
             ELSE LET parsed   == safe_parse_json(response_text.val)
                      literal  == CandidateProfile_validate_json(response_text.val)
                      fromdict == validate_CandidateProfile(parsed.val)
                  IN  IF parsed # None /\ literal.ok THEN Return(literal.rec, "literal")
                      ELSE IF parsed # None /\ fromdict.ok
                           THEN Return(fromdict.rec, "parsed")
                      ELSE Return(
                               CandidateProfile(file_name, 0, <<>>,
                                                heuristic_summarize_resume(resume_text)),
                               "fallback")

\* an except block that names the candidate after the first line of the resume
profile_except_named(resume_text, file_name, e) ==
    Return(CandidateProfile(
               IF StrippedLines(resume_text) = <<>> THEN file_name
               ELSE StrippedLines(resume_text)[1],
               0, <<>>,
               <<"Parsing Error:", " ">> \o e \o <<".", " ", "Fallback summary:", " ">>
                   \o heuristic_summarize_resume(resume_text)),
           "except")

\* parse_candidate_profile, the except block
profile_except(resume_text, file_name, e) ==
    Return(CandidateProfile(
               file_name, 0, <<>>,
               <<"Parsing Error:", " ">> \o e \o <<".", " ", "Fallback summary:", " ">>
                   \o heuristic_summarize_resume(resume_text)),
           "except")

parse_candidate_profile(resume_text, file_name, client, llm) ==
    IF ~client
    THEN Return(CandidateProfile(<<"Error">>, 0, <<>>,
                                 <<"Gemini client not initialized">>),
                "no client")
    ELSE LET r == profile_try(resume_text, file_name, llm)
         IN  IF r.raised THEN profile_except(resume_text, file_name, r.exc) ELSE r

-----------------------------------------------------------------------------
(* evaluation_agent.py *)

ACCEPTED == <<"Accepted">>

REJECTED_SYSTEM_ERROR == <<"Rejected", " ", "(System", " ", "Error)">>

REJECTED_LLM_ERROR == <<"Rejected", " ", "(LLM", " ", "Error)">>

NOT_JSON == <<"Invalid JSON or validation error">>

\* run_evaluation_agent, the body of the try block: response.text must be a
\* str that validates as it stands
evaluation_try(llm) ==
    IF llm.raises THEN Raise(API_ERROR)
    ELSE IF llm.response.absent THEN Raise(NOT_A_STR)
    ELSE IF llm.response.text.kind # "str" THEN Raise(NOT_JSON)
    ELSE LET v == EvaluationResult_validate_json(llm.response.text.val)
         IN  IF v.ok THEN Return(v.rec, "literal") ELSE Raise(NOT_JSON)

\* an except block that reports a plain rejection with no gap
evaluation_except_plain(candidate_profile, e) ==
    Return(EvaluationResult(
               candidate_profile.candidate_name, 0, <<"Rejected">>,
               <<>>,
               <<"The AI failed to generate an evaluation. Please check the API.">>),
           "except")

\* run_evaluation_agent, the except block
evaluation_except(candidate_profile, e) ==
    Return(EvaluationResult(
               candidate_profile.candidate_name, 0, REJECTED_LLM_ERROR,
               <<<<"LLM Processing Error:", " ">> \o e>>,
               <<"The AI failed to generate an evaluation. Please check the API.">>),
           "except")

run_evaluation_agent(job_reqs, candidate_profile, client, llm) ==
    IF ~client
    THEN Return(EvaluationResult(
                    candidate_profile.candidate_name, 0, REJECTED_SYSTEM_ERROR,
                    <<<<"Gemini Client not initialized.">>>>,
                    <<"System initialization failed.">>),
                "no client")
    ELSE LET r == evaluation_try(llm)
         IN  IF r.raised THEN evaluation_except(candidate_profile, r.exc) ELSE r

-----------------------------------------------------------------------------
(* utils.py and app.py *)

\* os.path.splitext(name): the extension starts at the last dot, unless only
\* dots come before it
splitext(name) ==
    LET d == rfind(name, ".")
    IN  IF d = 0 \/ \A j \in 1..(d - 1) : name[j] = "."
        THEN [root |-> name, ext |-> <<>>]
        ELSE [root |-> SubSeq(name, 1, d - 1), ext |-> SubSeq(name, d, Len(name))]

\* str.lower() on the tokens of an extension
lower(s) == [k \in 1..Len(s) |-> IF s[k] = "PDF" THEN "pdf" ELSE s[k]]

\* extract_text_from_file: the reader of a file either raises inside the
\* function (file.readable is FALSE) or yields file.text
extract_text_from_file(file_path, file) ==
    LET file_extension == lower(splitext(file_path).ext)
    IN  IF file_extension = <<".", "pdf">>
        THEN IF file.readable THEN file.text
             ELSE <<"Error", " ", "reading", " ", "PDF:", " ", "corrupt">>
        ELSE IF file_extension \in {<<".", "docx">>, <<".", "doc">>}
        THEN IF file.readable THEN file.text
             ELSE <<"Error", " ", "reading", " ", "DOCX:", " ", "corrupt">>
        ELSE <<"Unsupported file type:", " ">> \o file_extension

MinTextLen == 20

RECURSIVE free_name(_, _, _, _)
\* the while loop that appends _<counter> until the name is not in UPLOAD_DIR
free_name(base_name, ext, counter, dir) ==
    LET save_name == base_name \o <<"_", ToString(counter)>> \o ext
    IN  IF save_name \in dir THEN free_name(base_name, ext, counter + 1, dir)
        ELSE save_name

choose_save_name(orig_name, dir) ==
    LET base_name == splitext(orig_name).root
        ext == IF splitext(orig_name).ext # <<>> THEN splitext(orig_name).ext
               ELSE <<".", "pdf">>
    IN  IF orig_name \in dir THEN free_name(base_name, ext, 1, dir) ELSE orig_name

FAILED_SYSTEM_ERROR == <<"Failed", " ", "(System", " ", "Error)">>

EMPTY_TEXT == <<"Extracted resume text is empty (possible scanned PDF).">>

CANNOT_WRITE == <<"cannot write file">>

Row(name, score, status, rationale, gaps, experience) ==
    [Candidate_Name |-> name, Final_Score |-> score, Status |-> status,
     Rationale |-> rationale, Gaps |-> gaps, Experience |-> experience]

\* the except block of the per-resume loop
error_row(uploaded_file, e) ==
    Row(uploaded_file.name, 0, FAILED_SYSTEM_ERROR,
        <<"Critical error during processing:", " ">> \o e,
        <<"System Failure">>, 0)

\* the try block of the per-resume loop from the evaluation on: the row
with_evaluation(profile, evaluation) ==
    IF evaluation.raised THEN Raise(evaluation.exc)
    ELSE Return(Row(evaluation.value.candidate_name,
                    evaluation.value.final_score,
                    evaluation.value.status,
                    evaluation.value.recruiter_rationale,
                    Join(evaluation.value.quantitative_gaps, <<"\n">>),
                    profile.total_experience_years),
                "row")

\* the try block from the profile extraction on
with_profile(uploaded_file, profile, job_reqs, client) ==
    IF profile.raised THEN Raise(profile.exc)
    ELSE with_evaluation(profile.value,
                         run_evaluation_agent(job_reqs, profile.value, client,
                                              uploaded_file.llm_eval))

\* the try block from the text guard on
with_text(uploaded_file, raw_resume_text, save_name, job_reqs, client) ==
    IF raw_resume_text = <<>> \/ StrLen(Strip(raw_resume_text)) < MinTextLen
    THEN Raise(EMPTY_TEXT)
    ELSE with_profile(uploaded_file,
                      parse_candidate_profile(raw_resume_text, save_name, client,
                                              uploaded_file.llm_profile),
                      job_reqs, client)

\* the try block of the per-resume loop, after the file was saved as save_name
evaluate_saved(uploaded_file, save_name, job_reqs, client) ==
    with_text(uploaded_file, extract_text_from_file(save_name, uploaded_file),
              save_name, job_reqs, client)

\* the row an iteration appends: that of the try block, or the except block's
row_or_error(uploaded_file, r) ==
    IF r.raised THEN error_row(uploaded_file, r.exc) ELSE r.value

\* the iteration once save_name is chosen
save_and_evaluate(uploaded_file, save_name, dir, job_reqs, client) ==
    IF uploaded_file.save_raises
    THEN [row |-> error_row(uploaded_file, CANNOT_WRITE), dir |-> dir,
          raised |-> TRUE]
    ELSE [row |-> row_or_error(uploaded_file,
                               evaluate_saved(uploaded_file, save_name, job_reqs, client)),
          dir |-> dir \cup {save_name},
          raised |-> evaluate_saved(uploaded_file, save_name, job_reqs, client).raised]

\* one iteration of the per-resume loop: the row appended, UPLOAD_DIR after
\* it, and whether the try block raised
process_one(uploaded_file, dir, job_reqs, client) ==
    save_and_evaluate(uploaded_file, choose_save_name(uploaded_file.name, dir), dir,
                      job_reqs, client)

\* An entry of the call log: an agent function was entered ("call"), a
\* generate_content request was made ("request"), or an uploaded file was
\* taken up by the loop ("file"); item is the position of the resume, 0 for
\* the job description
Event(kind, who, item) == [kind |-> kind, who |-> who, item |-> item]

\* parse_job_description: one generate_content statement, reached when the
\* client is set
jd_calls(client) ==
    <<Event("call", "jd", 0)>>
        \o (IF client THEN <<Event("request", "jd", 0)>> ELSE <<>>)

\* parse_candidate_profile: one generate_content statement
profile_calls(item, client) ==
    <<Event("call", "profile", item)>>
        \o (IF client THEN <<Event("request", "profile", item)>> ELSE <<>>)

\* an evaluation that repeats a failed request once
evaluation_calls_retrying(item, client, llm) ==
    <<Event("call", "evaluation", item)>>
        \o (IF client THEN <<Event("request", "evaluation", item)>> ELSE <<>>)
        \o (IF client /\ llm.raises THEN <<Event("request", "evaluation", item)>>
            ELSE <<>>)

\* run_evaluation_agent: one generate_content statement, whatever it does
evaluation_calls(item, client, llm) ==
    <<Event("call", "evaluation", item)>>
        \o (IF client THEN <<Event("request", "evaluation", item)>> ELSE <<>>)

\* the calls of the try block from the profile extraction on
profile_on_calls(uploaded_file, item, profile, client) ==
    profile_calls(item, client)
        \o (IF profile.raised THEN <<>>
            ELSE evaluation_calls(item, client, uploaded_file.llm_eval))

\* the calls of the try block from the text guard on
text_on_calls(uploaded_file, item, raw_resume_text, save_name, client) ==
    IF raw_resume_text = <<>> \/ StrLen(Strip(raw_resume_text)) < MinTextLen
    THEN <<>>
    ELSE profile_on_calls(uploaded_file, item,
                          parse_candidate_profile(raw_resume_text, save_name, client,
                                                  uploaded_file.llm_profile),
                          client)

\* the calls of one iteration of the per-resume loop
process_one_calls(uploaded_file, item, dir, client) ==
    <<Event("file", "loop", item)>>
        \o (IF uploaded_file.save_raises THEN <<>>
            ELSE text_on_calls(uploaded_file, item,
                               extract_text_from_file(
                                   choose_save_name(uploaded_file.name, dir),
                                   uploaded_file),
                               choose_save_name(uploaded_file.name, dir), client))

\* job_title == "error"
equals_error(job_title) == job_title = <<"error">>

\* "Error" in job_title
contains_Error(job_title) == \E k \in 1..Len(job_title) : job_title[k] = "Error"

\* sort_values with ascending=True
sort_orders_ascending(rows) ==
    {p \in [1..Len(rows) -> 1..Len(rows)] :
        /\ \A i, j \in 1..Len(rows) : i # j => p[i] # p[j]
        /\ \A i \in 1..(Len(rows) - 1) :
               rows[p[i]].Final_Score <= rows[p[i + 1]].Final_Score}

\* the orders DataFrame.sort_values(by="Final Score", ascending=False) can
\* return, as permutations of the positions of rows: the default sort kind is
\* not a stable one, so rows of equal score come in any order
sort_orders(rows) ==
    {p \in [1..Len(rows) -> 1..Len(rows)] :
        /\ \A i, j \in 1..Len(rows) : i # j => p[i] # p[j]
        /\ \A i \in 1..(Len(rows) - 1) :
               rows[p[i]].Final_Score >= rows[p[i + 1]].Final_Score}

Reorder(rows, p) == [i \in 1..Len(rows) |-> rows[p[i]]]

-----------------------------------------------------------------------------
(* Inputs *)

JobJson(title, core) ==
    <<"{", "job_title:", title, "must_have_skills:", "[", "$python", "]",
      "good_to_have_skills:", "[", "]", "min_years_experience:", "#3",
      "core_responsibilities:", "[">> \o core \o <<"]", "}">>

CandidateJson(name) ==
    <<"{", "candidate_name:", name, "total_experience_years:", "#3",
      "skills:", "[", "$python", "]", "work_experience_summary:", "$summary", "}">>

EvalJson(score, status) ==
    <<"{", "candidate_name:", "$Jane", "final_score:", score, "status:", status,
      "quantitative_gaps:", "[", "$python", "]", "recruiter_rationale:", "$summary",
      "}">>

\* reply texts that are JSON for the schema of fn
ValidJson(fn) ==
    IF fn = "jd"
    THEN {JobJson(t, c) : t \in {"$Engineer", "$ErrorAnalyst"}, c \in {<<>>, <<"$build">>}}
    ELSE {CandidateJson(n) : n \in {"$", "$Jane"}}

\* reply texts that are not: no JSON, JSON of another shape, a member missing,
\* a member of the wrong type
InvalidJson(fn) ==
    {<<"w", " ", "w">>, <<"null">>, <<"[", "$build", "]">>, <<"$Jane">>,
     <<"{", "job_title:", "$Engineer", "}">>,
     <<"{", "candidate_name:", "$Jane", "skills:", "[", "]", "}">>,
     JobJson("#3", <<>>), CandidateJson("null")}

\* a valid object inside prose or white space
Wrapped(fn) ==
    {pre \o t \o post : t \in ValidJson(fn),
                        pre \in {<<>>, <<"w", " ">>, <<"\n">>},
                        post \in {<<>>, <<" ", "w">>}}

\* the response shapes extract_response_text probes, carrying text t
Contents(t) == {None, Str(<<>>), Str(t), Obj}

Items(t) == {<<>>} \cup {<<Item(d, c)>> : d \in BOOLEAN, c \in Contents(t)}

Shapes(t) ==
    {Response(tx, cands, outs, ct) :
        tx \in {None, Str(<<>>)}, cands \in Items(t), outs \in Items(t),
        ct \in {None, Str(t)}}

Backend(fn) ==
    {Raises, Returns(NoResponse)}
        \cup {Returns(TextReply(t)) : t \in Wrapped(fn) \cup InvalidJson(fn) \cup {<<>>}}
        \cup {Returns(r) : r \in Shapes(CHOOSE t \in ValidJson(fn) : TRUE)}

READ_ERROR == <<"Error", " ", "reading", " ", "PDF:", " ", "corrupt">>

JdTexts ==
    {<<>>, READ_ERROR,
     <<"Responsibilities", ":", "\n", "-", " ", "a", " ", "b", "\n", "*", " ", "c">>,
     <<"x", " ", "y", "\n", "\n", "z">>}

ResumeTexts ==
    {<<>>, READ_ERROR, <<"ExperiencedPythonDeveloper", "\n", "x", " ", "y">>}

FileNames == {<<"jane_doe", ".", "pdf">>, <<"b", ".", "docx">>}

-----------------------------------------------------------------------------
(* The extraction functions applied to one input *)

BatchIdle ==
    /\ GEMINI_CLIENT = FALSE /\ jd_text = <<>> /\ uploaded_files = <<>>
    /\ llm_jd = Raises /\ uploads = {} /\ uploads0 = {}
    /\ job_requirements = NoRecord /\ results = <<>> /\ idx = 0
    /\ pc = "idle" /\ df = <<>> /\ st_error = <<>> /\ calls = <<>>

UnitIdle == op = "idle" /\ arg = NoRecord /\ ret = NoRecord

ExtractInputs ==
    {[fn |-> "jd", text |-> t, file_name |-> <<>>, client |-> c, llm |-> b] :
        t \in JdTexts, c \in BOOLEAN, b \in Backend("jd")}
    \cup
    {[fn |-> "profile", text |-> t, file_name |-> f, client |-> c, llm |-> b] :
        t \in ResumeTexts, f \in FileNames, c \in BOOLEAN, b \in Backend("profile")}

InitExtract ==
    /\ BatchIdle
    /\ op = "idle" /\ ret = NoRecord
    /\ arg \in ExtractInputs

CallParseJobDescription ==
    /\ op = "idle" /\ arg.fn = "jd"
    /\ ret' = parse_job_description(arg.text, arg.client, arg.llm)
    /\ op' = "parse_job_description"
    /\ UNCHANGED <<arg, batch_vars>>

CallParseCandidateProfile ==
    /\ op = "idle" /\ arg.fn = "profile"
    /\ ret' = parse_candidate_profile(arg.text, arg.file_name, arg.client, arg.llm)
    /\ op' = "parse_candidate_profile"
    /\ UNCHANGED <<arg, batch_vars>>

NextExtract == CallParseJobDescription \/ CallParseCandidateProfile

SpecExtract == InitExtract /\ [][NextExtract]_vars

-----------------------------------------------------------------------------
(* Properties of the extraction functions *)

IsStr(s) == s \in Seq(STRING)

IsStrSeq(l) == DOMAIN l = 1..Len(l) /\ \A k \in 1..Len(l) : IsStr(l[k])

IsJobRequirements(r) ==
    /\ DOMAIN r = {"job_title", "must_have_skills", "good_to_have_skills",
                   "min_years_experience", "core_responsibilities"}
    /\ IsStr(r.job_title)
    /\ IsStrSeq(r.must_have_skills)
    /\ IsStrSeq(r.good_to_have_skills)
    /\ r.min_years_experience \in Nat
    /\ IsStrSeq(r.core_responsibilities)

IsCandidateProfile(r) ==
    /\ DOMAIN r = {"candidate_name", "total_experience_years", "skills",
                   "work_experience_summary"}
    /\ IsStr(r.candidate_name)
    /\ r.total_experience_years \in Nat
    /\ IsStrSeq(r.skills)
    /\ IsStr(r.work_experience_summary)

\* C1: for every input text and every behaviour of the backend,
\* parse_job_description returns a JobRequirements and parse_candidate_profile
\* a CandidateProfile with every field populated, and neither raises.
C1_Totality ==
    /\ op = "parse_job_description" => ~ret.raised /\ IsJobRequirements(ret.value)
    /\ op = "parse_candidate_profile" => ~ret.raised /\ IsCandidateProfile(ret.value)

\* the reply was JSON that fails the schema, on the empty input text, and a
\* record came back from the fallback
C1_Witness ==
    /\ op = "parse_job_description"
    /\ arg.text = <<>>
    /\ arg.llm = Returns(TextReply(<<"{", "job_title:", "$Engineer", "}">>))
    /\ ret.via = "fallback"
    /\ ret.value.core_responsibilities = <<<<"Could not recover responsibilities">>>>

\* the candidate_name member of the reply a profile was validated from
ReplyName(a) ==
    LET text == extract_response_text(a.llm.response).val
    IN  StrDecode(Members(safe_parse_json(text).val)["candidate_name:"][1])

\* C4: if the extracted candidate_name is empty, the returned candidate_name
\* is the file's base name without its extension.
C4_NameBackfill ==
    (/\ op = "parse_candidate_profile"
     /\ ret.via \in {"literal", "parsed"}
     /\ ReplyName(arg) = <<>>)
        => ret.value.candidate_name = splitext(arg.file_name).root

-----------------------------------------------------------------------------
(* The repair step: a reply that holds a valid object inside prose *)

MaxProse == 2

ProseTokens == {"w", " ", "{", "}", "[", "]"}

RECURSIVE SeqsUpTo(_, _)
\* the sequences over S of length at most n
SeqsUpTo(S, n) ==
    IF n = 0 THEN {<<>>}
    ELSE LET shorter == SeqsUpTo(S, n - 1)
         IN  shorter \cup {Append(q, x) : q \in shorter, x \in S}

Prose == SeqsUpTo(ProseTokens, MaxProse)

\* safe_parse_json and the two validations applied to a reply text
repair(fn, reply) ==
    IF fn = "jd" THEN jd_try(<<>>, Returns(TextReply(reply)))
    ELSE profile_try(<<>>, <<"jane_doe", ".", "pdf">>, Returns(TextReply(reply)))

InitRepair ==
    /\ BatchIdle
    /\ op = "idle" /\ ret = NoRecord
    /\ arg \in {[fn |-> f, pre |-> a, body |-> b, post |-> c] :
                   f \in {"jd"}, a \in Prose, b \in ValidJson("jd"), c \in Prose}
               \cup
               {[fn |-> f, pre |-> a, body |-> b, post |-> c] :
                   f \in {"profile"}, a \in Prose, b \in ValidJson("profile"), c \in Prose}

CallRepair ==
    /\ op = "idle"
    /\ ret' = repair(arg.fn, arg.pre \o arg.body \o arg.post)
    /\ op' = "repair"
    /\ UNCHANGED <<arg, batch_vars>>

SpecRepair == InitRepair /\ [][CallRepair]_vars

\* C5: a reply that is a schema-valid JSON object with arbitrary prose before
\* and/or after it yields the same record as the object alone.
C5_RepairIdempotent ==
    op = "repair" =>
        /\ ret.via \in {"literal", "parsed"}
        /\ ret.value = repair(arg.fn, arg.body).value

-----------------------------------------------------------------------------
(* The heuristic fallback of parse_job_description *)

MaxLines == 3

MaxManyBullets == 9

LinePool ==
    {<<"-", " ", "a", " ", "b">>,      \* a bullet of two words
     <<"*", " ", "c">>,                \* a bullet of one word
     <<"d", " ", "e", " ", "f">>,      \* three words
     <<"g", " ", "h">>,                \* two words
     <<"-", "i", " ", "j", " ", "k">>} \* a marker with no space after it

Headers ==
    {<<"Responsibilities", ":">>, <<"Responsibilities">>,
     <<"Key", " ", "RESPONSIBILITIES", " ", "-">>, <<"duties", ":", " ">>,
     <<"Core", " ", "Responsibilities", ":", " ", "m", " ", "n", " ", "o">>,
     <<"x", " ", "y">>}

Preambles == {<<>>, <<"p", " ", "q", "\n">>}

NumberedBullets(n) == [i \in 1..n |-> <<"-", " ", ToString(i)>>]

HeuristicTexts ==
    {pre \o hd \o <<"\n">> \o Join(ls, <<"\n">>) :
        pre \in Preambles, hd \in Headers, ls \in SeqsUpTo(LinePool, MaxLines)}
    \cup
    {<<"Responsibilities", ":", "\n">> \o Join(NumberedBullets(n), <<"\n">>) :
        n \in 0..MaxManyBullets}
    \cup
    {<<"x", "\n">> \o Join(NumberedBullets(n), <<"\n">>) : n \in 0..MaxManyBullets}

\* backends whose output cannot be parsed or validated
Unparseable == {Raises, Returns(TextReply(<<"w", " ", "w">>))}

InitHeuristic ==
    /\ BatchIdle
    /\ op = "idle" /\ ret = NoRecord
    /\ arg \in {[text |-> t, llm |-> b] : t \in HeuristicTexts, b \in Unparseable}

CallFallback ==
    /\ op = "idle"
    /\ ret' = parse_job_description(arg.text, TRUE, arg.llm)
    /\ op' = "fallback"
    /\ UNCHANGED <<arg, batch_vars>>

SpecHeuristic == InitHeuristic /\ [][CallFallback]_vars

HasHeader(text) == \E k \in 1..Len(text) : text[k] \in HeaderWords

RECURSIVE SkipSpaces(_, _)
SkipSpaces(s, p) == IF p <= Len(s) /\ s[p] = " " THEN SkipSpaces(s, p + 1) ELSE p

\* the text after the header: after the first header word and the separator
\* that follows it on the header's own line
AfterHeader(text) ==
    LET h  == CHOOSE k \in 1..Len(text) :
                  text[k] \in HeaderWords /\ \A j \in 1..(k - 1) : text[j] \notin HeaderWords
        p1 == SkipSpaces(text, h + 1)
        p2 == IF p1 <= Len(text) /\ text[p1] \in {":", "-"} THEN p1 + 1 ELSE p1
        p3 == SkipSpaces(text, p2)
    IN  SubSeq(text, p3, IF Len(text) < p3 + SnippetLen - 1 THEN Len(text)
                         ELSE p3 + SnippetLen - 1)

\* the bullet lines (marker stripped) and the lines of at least 3 words after
\* the header, in order, at most 8
ListedResponsibilities(text) ==
    LET lines == StrippedLines(AfterHeader(text))
        kept  == SelectSeq(lines, LAMBDA ln : is_bullet(ln) \/ WordCount(ln) >= 3)
    IN  Take([i \in 1..Len(kept) |->
                 IF is_bullet(kept[i]) THEN strip_marker(kept[i]) ELSE kept[i]],
             MaxBullets)

\* C6: with unparseable backend output and a responsibilities-like header in
\* the text, core_responsibilities is the sequence, in order and capped at 8,
\* of the bullet lines (marker stripped) and the lines of at least 3 words
\* after the header.  Stated for the texts that have such a line.
C6_HeaderFallback ==
    (op = "fallback" /\ HasHeader(arg.text) /\ ListedResponsibilities(arg.text) # <<>>)
        => ret.value.core_responsibilities = ListedResponsibilities(arg.text)

-----------------------------------------------------------------------------
(* run_evaluation_agent applied to one input *)

EvalReplies ==
    {EvalJson(n, st) : n \in NumLits, st \in {"$Accepted", "$Rejected"}}
    \cup {<<"w">> \o EvalJson("#90", "$Accepted"), <<"w", " ", "w">>, <<>>, <<"null">>,
          EvalJson("$Jane", "$Accepted"), CandidateJson("$Jane")}

EvalBackend ==
    {Raises, Returns(NoResponse), Returns(Response(None, <<>>, <<>>, None)),
     Returns(Response(Obj, <<>>, <<>>, None))}
        \cup {Returns(TextReply(t)) : t \in EvalReplies}

SomeJob == JobRequirements(<<"Engineer">>, <<>>, <<>>, 3, <<>>)

InitEval ==
    /\ BatchIdle
    /\ op = "idle" /\ ret = NoRecord
    /\ arg \in {[client |-> c, llm |-> b,
                 profile |-> CandidateProfile(n, 3, <<>>, <<"summary">>)] :
                   c \in BOOLEAN, b \in EvalBackend,
                   n \in {<<>>, <<"Jane">>, <<"jane_doe", ".", "pdf">>}}

CallRunEvaluationAgent ==
    /\ op = "idle"
    /\ ret' = run_evaluation_agent(SomeJob, arg.profile, arg.client, arg.llm)
    /\ op' = "run_evaluation_agent"
    /\ UNCHANGED <<arg, batch_vars>>

SpecEval == InitEval /\ [][CallRunEvaluationAgent]_vars

\* the reply is a str that is JSON valid for EvaluationResult
ReplyValidates(llm) ==
    /\ ~llm.raises /\ ~llm.response.absent
    /\ llm.response.text.kind = "str"
    /\ EvaluationResult_validate_json(llm.response.text.val).ok

\* C3: run_evaluation_agent never raises; with no client it returns score 0
\* and "Rejected (System Error)"; when the call raises or the reply fails to
\* parse or validate it returns score 0 and "Rejected (LLM Error)"; in both
\* cases there is exactly one gap and the status is not "Accepted".
C3_EvaluationFailure ==
    op = "run_evaluation_agent" =>
        /\ ~ret.raised
        /\ ~arg.client =>
              /\ ret.value.final_score = 0
              /\ ret.value.status = REJECTED_SYSTEM_ERROR
              /\ Len(ret.value.quantitative_gaps) = 1
              /\ ret.value.status # ACCEPTED
        /\ (arg.client /\ ~ReplyValidates(arg.llm)) =>
              /\ ret.value.final_score = 0
              /\ ret.value.status = REJECTED_LLM_ERROR
              /\ Len(ret.value.quantitative_gaps) = 1
              /\ ret.value.status # ACCEPTED

\* a reply with prose around the JSON, which evaluation does not repair
C3_Witness ==
    /\ op = "run_evaluation_agent"
    /\ arg.client
    /\ arg.llm = Returns(TextReply(<<"w">> \o EvalJson("#90", "$Accepted")))
    /\ ret.value.status = REJECTED_LLM_ERROR
    /\ ret.value.final_score = 0

\* C8: a result returned from a parsed and validated reply has status
\* "Accepted" if and only if final_score > 75; a result returned on an error
\* path has a rejected-with-error status.
C8_ScoreStatus ==
    op = "run_evaluation_agent" =>
        /\ ret.via = "literal" =>
              (ret.value.status = ACCEPTED <=> ret.value.final_score > 75)
        /\ ret.via # "literal" =>
              ret.value.status \in {REJECTED_SYSTEM_ERROR, REJECTED_LLM_ERROR}

-----------------------------------------------------------------------------
(* process_resumes *)

MaxFiles == 2

File(name, save_raises, readable, text, llm_profile, llm_eval) ==
    [name |-> name, save_raises |-> save_raises, readable |-> readable,
     text |-> text, llm_profile |-> llm_profile, llm_eval |-> llm_eval]

LONG_TEXT == <<"ExperiencedPythonDeveloper", "\n", "x", " ", "y">>

BatchNames == {<<"a", ".", "pdf">>, <<"b", ".", "docx">>}

FileVariants ==
    {File(n, FALSE, TRUE, LONG_TEXT, p, e) :
        n \in BatchNames,
        p \in {Raises, Returns(TextReply(CandidateJson("$Jane")))},
        e \in {Raises, Returns(TextReply(EvalJson("#90", "$Accepted"))),
               Returns(TextReply(EvalJson("#40", "$Rejected")))}}
    \cup {File(n, TRUE, TRUE, LONG_TEXT, Raises, Raises) : n \in BatchNames}
    \cup {File(n, FALSE, TRUE, <<>>, Raises, Raises) : n \in BatchNames}
    \cup {File(n, FALSE, FALSE, <<>>, Raises, Raises) : n \in BatchNames}

RECURSIVE ListsUpTo(_, _)
\* the non-empty sequences over S of length at most n
ListsUpTo(S, n) ==
    IF n = 1 THEN {<<x>> : x \in S}
    ELSE LET shorter == ListsUpTo(S, n - 1)
         IN  shorter \cup {Append(q, x) : q \in shorter, x \in S}

BatchJdBackend ==
    {Raises,
     Returns(TextReply(<<"w", " ", "w">>)),
     Returns(TextReply(JobJson("$Engineer", <<"$build">>))),
     Returns(TextReply(JobJson("$ErrorAnalyst", <<"$build">>))),
     Returns(TextReply(JobJson("$ErrorAnalyst", <<>>)))}

\* the button handler calls process_resumes with a non-empty text and a
\* non-empty list of files
Init ==
    /\ UnitIdle
    /\ GEMINI_CLIENT \in BOOLEAN
    /\ jd_text = <<"Responsibilities", ":", "\n", "-", " ", "a", " ", "b">>
    /\ uploaded_files \in ListsUpTo(FileVariants, MaxFiles)
    /\ llm_jd \in (IF GEMINI_CLIENT THEN BatchJdBackend ELSE {Raises})
    /\ uploads0 \in {{}, {<<"a", ".", "pdf">>}}
    /\ uploads = uploads0
    /\ job_requirements = NoRecord
    /\ results = <<>>
    /\ idx = 0
    /\ pc = "start"
    /\ df = <<>>
    /\ st_error = <<>>
    /\ calls = <<>>

\* what follows the parse of the job description: r is its outcome
JobParsed(r) ==
    IF r.raised
    THEN /\ pc' = "raised"
         /\ UNCHANGED <<job_requirements, st_error, idx>>
    ELSE /\ job_requirements' = r.value
         /\ IF contains_Error(r.value.job_title)
            THEN IF r.value.core_responsibilities = <<>>
                 THEN \* core_responsibilities[0] raises IndexError
                      /\ pc' = "raised"
                      /\ UNCHANGED <<st_error, idx>>
                 ELSE /\ st_error' = <<"Failed to parse Job Description:", " ">>
                                         \o r.value.core_responsibilities[1]
                      /\ pc' = "done"
                      /\ UNCHANGED idx
            ELSE /\ pc' = IF uploaded_files = <<>> THEN "sort" ELSE "loop"
                 /\ idx' = 1
                 /\ UNCHANGED st_error

\* lines 39-53: the job description is parsed and the "Error" check is made
ParseJobDescription ==
    /\ pc = "start"
    /\ JobParsed(parse_job_description(jd_text, GEMINI_CLIENT, llm_jd))
    /\ calls' = calls \o jd_calls(GEMINI_CLIENT)
    /\ UNCHANGED <<GEMINI_CLIENT, jd_text, uploaded_files, llm_jd, uploads, uploads0,
                   results, df, unit_vars>>

Appended(o) ==
    /\ results' = Append(results, o.row)
    /\ uploads' = o.dir

\* lines 56-130: one iteration of the loop
ProcessResume ==
    /\ pc = "loop"
    /\ Appended(process_one(uploaded_files[idx], uploads, job_requirements, GEMINI_CLIENT))
    /\ calls' = calls \o process_one_calls(uploaded_files[idx], idx, uploads,
                                            GEMINI_CLIENT)
    /\ idx' = idx + 1
    /\ pc' = IF idx = Len(uploaded_files) THEN "sort" ELSE "loop"
    /\ UNCHANGED <<GEMINI_CLIENT, jd_text, uploaded_files, llm_jd, uploads0,
                   job_requirements, df, st_error, unit_vars>>

\* lines 132-134: sort_values raises KeyError on a frame without columns
SortAndReturn ==
    /\ pc = "sort"
    /\ IF results = <<>>
       THEN pc' = "raised" /\ UNCHANGED df
       ELSE \E p \in sort_orders(results) :
                /\ df' = Reorder(results, p)
                /\ pc' = "done"
    /\ UNCHANGED <<GEMINI_CLIENT, jd_text, uploaded_files, llm_jd, uploads, uploads0,
                   job_requirements, results, idx, st_error, calls, unit_vars>>

Next == ParseJobDescription \/ ProcessResume \/ SortAndReturn

Spec == Init /\ [][Next]_vars

-----------------------------------------------------------------------------
(* The final sort on its own *)

MaxRows == 4

SortScores == {0, 40, 90}

ScoredRows(scores) ==
    [i \in 1..Len(scores) |->
        Row(<<"candidate", ToString(i)>>, scores[i],
            IF scores[i] > 75 THEN ACCEPTED ELSE <<"Rejected">>,
            <<"summary">>, <<"python">>, 3)]

InitSort ==
    /\ UnitIdle
    /\ GEMINI_CLIENT = TRUE
    /\ jd_text = <<"x">>
    /\ llm_jd = Raises
    /\ uploads0 = {} /\ uploads = {}
    /\ job_requirements = SomeJob
    /\ \E scores \in ListsUpTo(SortScores, MaxRows) :
           /\ results = ScoredRows(scores)
           /\ uploaded_files =
                  [i \in 1..Len(scores) |->
                      File(<<"candidate", ToString(i)>>, FALSE, TRUE, LONG_TEXT,
                           Raises, Raises)]
           /\ idx = Len(scores) + 1
    /\ pc = "sort"
    /\ df = <<>>
    /\ st_error = <<>>
    /\ calls = <<>>

SpecSort == InitSort /\ [][SortAndReturn]_vars

Scores(rows) == [i \in 1..Len(rows) |-> rows[i].Final_Score]

Count(rows, r) == Cardinality({i \in 1..Len(rows) : rows[i] = r})

\* rows ordered by score descending, rows of equal score in their order in rows
StableDescending(rows) ==
    LET p == CHOOSE q \in [1..Len(rows) -> 1..Len(rows)] :
                 \A i, j \in 1..Len(rows) :
                     i < j => \/ rows[q[i]].Final_Score > rows[q[j]].Final_Score
                              \/ /\ rows[q[i]].Final_Score = rows[q[j]].Final_Score
                                 /\ q[i] < q[j]
    IN  Reorder(rows, p)

\* C7 as stated: the returned rows are ordered by Final Score descending and
\* rows of equal score keep the order in which they were accumulated.
C7_StableSort ==
    (pc = "done" /\ results # <<>>) => df = StableDescending(results)

\* C7 amended: the returned rows are ordered by Final Score descending and are
\* a permutation of the accumulated rows.
C7_SortedPermutation ==
    (pc = "done" /\ results # <<>>) =>
        /\ Len(df) = Len(results)
        /\ \A i \in 1..(Len(df) - 1) : df[i].Final_Score >= df[i + 1].Final_Score
        /\ \A i \in 1..Len(results) : Count(df, results[i]) = Count(results, results[i])

C7_Witness ==
    /\ pc = "done"
    /\ Scores(results) = <<40, 90, 0, 90>>
    /\ Scores(df) = <<90, 90, 40, 0>>

-----------------------------------------------------------------------------
(* Properties of process_resumes *)

RECURSIVE run_loop(_, _, _, _)
\* the outcomes of the per-resume loop over files, started with UPLOAD_DIR = dir
run_loop(files, dir, job_reqs, client) ==
    IF files = <<>> THEN <<>>
    ELSE <<process_one(Head(files), dir, job_reqs, client)>>
             \o run_loop(Tail(files),
                         process_one(Head(files), dir, job_reqs, client).dir,
                         job_reqs, client)

\* the per-resume loop has run over every uploaded file
LoopDone == pc = "sort" \/ (pc = "done" /\ results # <<>>)

\* the rows of the resumes whose pipeline did not raise, when the loop is run
\* over those resumes only; kept holds their positions in the batch
RowsWithoutFailing(kept) ==
    run_loop([k \in 1..Len(kept) |-> uploaded_files[kept[k]]], uploads0,
             job_requirements, GEMINI_CLIENT)

IsolationHolds(outcomes, kept) ==
    /\ Len(results) = Len(uploaded_files)
    /\ \A i \in 1..Len(outcomes) :
           outcomes[i].raised =>
               /\ results[i].Status = FAILED_SYSTEM_ERROR
               /\ results[i].Final_Score = 0
    /\ \A k \in 1..Len(kept) : results[kept[k]] = RowsWithoutFailing(kept)[k].row

Kept(outcomes) ==
    SelectSeq([i \in 1..Len(outcomes) |-> i], LAMBDA i : ~outcomes[i].raised)

\* C2: after the loop over N resumes there are exactly N rows; a resume whose
\* pipeline raises contributes one row with status "Failed (System Error)"
\* and score 0; the rows of the other resumes are those of the batch without
\* the failing resumes.
C2_BatchIsolation ==
    LoopDone =>
        IsolationHolds(run_loop(uploaded_files, uploads0, job_requirements, GEMINI_CLIENT),
                       Kept(run_loop(uploaded_files, uploads0, job_requirements,
                                     GEMINI_CLIENT)))

\* C9: called with a non-empty list of uploaded files, process_resumes never
\* raises to its caller.
C9_NeverRaises == uploaded_files # <<>> => pc # "raised"

ErrorSentinels == {FAILED_SYSTEM_ERROR, REJECTED_SYSTEM_ERROR, REJECTED_LLM_ERROR}

\* C10 as stated: with no client, the batch returns one row per resume, each
\* with an error-sentinel status, and never an empty table.
C10_RowPerResume ==
    (~GEMINI_CLIENT /\ pc = "done") =>
        /\ Len(df) = Len(uploaded_files)
        /\ \A i \in 1..Len(df) : df[i].Status \in ErrorSentinels

\* C10 amended: with no client, process_resumes shows the message "Failed to
\* parse Job Description: Gemini client not initialized" and returns an empty
\* table; no resume is saved, extracted or evaluated.
C10_EmptyTableAndMessage ==
    ~GEMINI_CLIENT =>
        /\ pc \in {"start", "done"}
        /\ pc = "done" =>
              /\ df = <<>>
              /\ results = <<>>
              /\ uploads = uploads0
              /\ st_error = <<"Failed to parse Job Description:", " ",
                              "Gemini client not initialized">>

C10_Witness ==
    /\ ~GEMINI_CLIENT
    /\ pc = "done"
    /\ Len(uploaded_files) >= 2
    /\ st_error # <<>>

-----------------------------------------------------------------------------
(* The order of the calls in one run of process_resumes *)

At(e) == {k \in 1..Len(calls) : calls[k] = e}

Requests == {k \in 1..Len(calls) : calls[k].kind = "request"}

\* C11: the job description is parsed exactly once, before any resume is
\* taken up; for each resume the profile extraction is called before the
\* evaluation, and both before anything of the next resume; each agent call
\* makes at most one LLM request, so N resumes make at most 1 + 2N requests.
C11_CallOrder ==
    /\ pc # "start" =>
          /\ Cardinality(At(Event("call", "jd", 0))) = 1
          /\ calls[1] = Event("call", "jd", 0)
    /\ \A k \in 2..Len(calls) : calls[k - 1].item <= calls[k].item
    /\ \A i \in 1..Len(uploaded_files) :
          /\ Cardinality(At(Event("call", "profile", i))) <= 1
          /\ Cardinality(At(Event("call", "evaluation", i))) <= 1
          /\ \A k \in At(Event("call", "evaluation", i)) :
                 \E m \in At(Event("call", "profile", i)) : m < k
    /\ \A k \in Requests :
          k > 1 /\ calls[k - 1] = Event("call", calls[k].who, calls[k].item)
    /\ Cardinality(Requests) <= 1 + 2 * Len(uploaded_files)

\* a batch of two resumes that made all of its 1 + 2N requests, two of which
\* failed
C11_Witness ==
    /\ pc = "done"
    /\ Len(uploaded_files) = 2
    /\ Cardinality(Requests) = 5
    /\ uploaded_files[1].llm_profile.raises
    /\ uploaded_files[1].llm_eval.raises

-----------------------------------------------------------------------------
(* Resumes whose text cannot be had *)

\* the file cannot be read, or its extracted text is empty
InputError(file) == ~file.readable \/ file.text = <<>>

\* C12: for a resume whose file is unreadable or whose extracted text is
\* empty, no profile extraction and no evaluation is called, and its row is
\* the per-item error row: score 0, "Failed (System Error)", gaps "System
\* Failure", experience 0.
C12_InputErrorIsHardFailure ==
    \A i \in 1..Len(results) :
        InputError(uploaded_files[i]) =>
            /\ At(Event("call", "profile", i)) = {}
            /\ At(Event("call", "evaluation", i)) = {}
            /\ results[i].Final_Score = 0
            /\ results[i].Status = FAILED_SYSTEM_ERROR
            /\ results[i].Gaps = <<"System Failure">>
            /\ results[i].Experience = 0

-----------------------------------------------------------------------------
(* extract_response_text applied to one response *)

\* responses that carry a different text in each shape
ProbeInputs ==
    {NoResponse}
        \cup {Response(tx, cands, outs, ct) :
                 tx \in {None, Str(<<>>), Str(<<"top">>)},
                 cands \in Items(<<"candidate">>),
                 outs \in Items(<<"output">>),
                 ct \in {None, Str(<<"content">>)}}

InitProbe ==
    /\ BatchIdle
    /\ op = "idle" /\ ret = NoRecord
    /\ arg \in ProbeInputs

CallExtractResponseText ==
    /\ op = "idle"
    /\ ret' = extract_response_text(arg)
    /\ op' = "extract_response_text"
    /\ UNCHANGED <<arg, batch_vars>>

SpecProbe == InitProbe /\ [][CallExtractResponseText]_vars

\* the contents of the shapes that are present, in the order top-level text,
\* first item of candidates, first item of output
ShapeContents(response) ==
    <<response.text>>
        \o (IF response.candidates # <<>> THEN <<response.candidates[1].content>>
            ELSE <<>>)
        \o (IF response.output # <<>> THEN <<response.output[1].content>> ELSE <<>>)

NonEmpty(contents) == SelectSeq(contents, Truthy)

\* C13: extract_response_text returns the content of the first shape, in the
\* order top-level text, candidates[0], output[0], that is present with
\* non-empty content; an empty content in an earlier shape does not hide a
\* non-empty content in a later one.
C13_FirstNonEmptyShape ==
    (op = "extract_response_text" /\ ~arg.absent /\ NonEmpty(ShapeContents(arg)) # <<>>) =>
        ret = Head(NonEmpty(ShapeContents(arg)))

-----------------------------------------------------------------------------
(* The order of the validations in the extraction functions *)

\* the text of the reply to the request of input a, None when the call raised
ReplyText(a) ==
    IF a.llm.raises THEN None ELSE extract_response_text(a.llm.response)

HasText(a) == ReplyText(a).kind = "str" /\ ReplyText(a).val # <<>>

\* the literal reply text validated against the schema of a.fn
LiteralOf(a) ==
    IF a.fn = "jd" THEN JobRequirements_validate_json(ReplyText(a).val)
    ELSE CandidateProfile_validate_json(ReplyText(a).val)

RecoveredOf(a) == safe_parse_json(ReplyText(a).val)

\* the recovered value validated against the schema of a.fn
FromRecoveredOf(a) ==
    IF a.fn = "jd" THEN validate_JobRequirements(RecoveredOf(a).val)
    ELSE validate_CandidateProfile(RecoveredOf(a).val)

\* C14: a reply text that validates as it stands gives exactly its record;
\* the recovered value is validated only when the literal text fails; the
\* fallback record is returned only when the reply has no text, no JSON value
\* is recovered, or both validations fail.
C14_ValidationOrder ==
    (op \in {"parse_job_description", "parse_candidate_profile"} /\ arg.client) =>
        /\ ret.via \in {"literal", "parsed", "fallback", "except"}
        /\ (HasText(arg) /\ LiteralOf(arg).ok) =>
               ret.via = "literal" /\ ret.value = LiteralOf(arg).rec
        /\ ret.via = "parsed" =>
               /\ HasText(arg) /\ ~LiteralOf(arg).ok /\ RecoveredOf(arg) # None
               /\ ret.value = FromRecoveredOf(arg).rec
        /\ ret.via \in {"fallback", "except"} =>
               \/ ~HasText(arg)
               \/ RecoveredOf(arg) = None
               \/ ~LiteralOf(arg).ok /\ ~FromRecoveredOf(arg).ok

\* a reply with prose around the object: the literal text fails and the
\* recovered value gives the record
C14_Witness ==
    /\ op = "parse_job_description"
    /\ arg.client
    /\ HasText(arg)
    /\ ReplyText(arg).val[1] = "w"
    /\ ~LiteralOf(arg).ok
    /\ ret.via = "parsed"
    /\ ret.value.job_title = <<"Engineer">>

-----------------------------------------------------------------------------
(* The fallbacks on texts without a responsibilities header *)

MaxPlainLines == 7

RECURSIVE PlainLines(_)
\* n lines, the k-th being the word k, the word k inside white space, or empty
PlainLines(n) ==
    IF n = 0 THEN {<<>>}
    ELSE {Append(q, l) :
             q \in PlainLines(n - 1),
             l \in {<<ToString(n)>>, <<" ", ToString(n), " ">>, <<>>}}

NoHeaderTexts ==
    UNION {{Join(ls, <<"\n">>) : ls \in PlainLines(n)} : n \in 0..MaxPlainLines}

\* backends whose output cannot be parsed or validated, or that give none
NoRecordBackends ==
    {Raises, Returns(NoResponse), Returns(TextReply(<<"w", " ", "w">>))}

InitNoHeader ==
    /\ BatchIdle
    /\ op = "idle" /\ ret = NoRecord
    /\ arg \in {[fn |-> f, text |-> t, file_name |-> <<"jane_doe", ".", "pdf">>,
                 client |-> TRUE, llm |-> b] :
                    f \in {"jd", "profile"}, t \in NoHeaderTexts, b \in NoRecordBackends}

SpecNoHeader == InitNoHeader /\ [][NextExtract]_vars

\* the first 6 non-empty lines of the text, stripped
FirstLines(text) == Take(StrippedLines(text), 6)

\* C15 as stated: without a header, core_responsibilities is the first 6
\* non-empty lines of the text, the empty sequence if the text is empty; the
\* resume summary is the first 6 non-empty lines joined into one string, the
\* no-text sentinel if the text is empty.
C15_FirstSixLines ==
    /\ op = "parse_job_description" =>
           ret.value.core_responsibilities = FirstLines(arg.text)
    /\ op = "parse_candidate_profile" =>
           ret.value.work_experience_summary =
               IF arg.text = <<>> THEN NO_RESUME_TEXT
               ELSE Join(FirstLines(arg.text), <<" ">>)

\* the message of the exception the except block reports for input a
ReportedError(a) == IF a.llm.raises THEN API_ERROR ELSE NO_TEXT

\* the summary of a resume text: its first 6 non-empty lines joined by a
\* space, or the sentinel when there is none
PlainSummary(text) ==
    IF FirstLines(text) = <<>> THEN NO_RESUME_TEXT
    ELSE Join(FirstLines(text), <<" ">>)

\* C15 amended: without a header, core_responsibilities is the first 6
\* non-empty lines of the text, stripped, and when there is none the single
\* placeholder "Could not recover responsibilities" (reply not parseable) or
\* "Error: <exception>" (call failed or reply without text); the resume
\* summary is the first 6 stripped non-empty lines joined by a space, or the
\* no-text sentinel when there is none, prefixed by "Parsing Error:
\* <exception>. Fallback summary: " when the call failed or gave no text.
C15_FirstSixLinesOrPlaceholder ==
    /\ op = "parse_job_description" =>
           /\ ret.via \in {"fallback", "except"}
           /\ ret.value.core_responsibilities =
                  IF FirstLines(arg.text) # <<>> THEN FirstLines(arg.text)
                  ELSE IF ret.via = "fallback"
                       THEN <<<<"Could not recover responsibilities">>>>
                       ELSE <<<<"Error:", " ">> \o ReportedError(arg)>>
    /\ op = "parse_candidate_profile" =>
           /\ ret.via \in {"fallback", "except"}
           /\ ret.value.work_experience_summary =
                  IF ret.via = "fallback" THEN PlainSummary(arg.text)
                  ELSE <<"Parsing Error:", " ">> \o ReportedError(arg)
                           \o <<".", " ", "Fallback summary:", " ">>
                           \o PlainSummary(arg.text)

\* a text of 7 non-empty lines, some inside white space, of which the first
\* 6 came back stripped
C15_Witness ==
    /\ op = "parse_job_description"
    /\ ret.via = "fallback"
    /\ Len(StrippedLines(arg.text)) = 7
    /\ arg.text[1] = " "
    /\ ret.value.core_responsibilities =
           <<<<"1">>, <<"2">>, <<"3">>, <<"4">>, <<"5">>, <<"6">>>>

-----------------------------------------------------------------------------
(* The fields of a fallback record *)

\* the return statements that build a record without a validated reply
FallbackPaths == {"fallback", "except", "no client"}

\* C16: a JobRequirements from the heuristic fallback or an error path has
\* must_have_skills and good_to_have_skills empty and min_years_experience 0,
\* a CandidateProfile from there has skills empty and total_experience_years
\* 0; no field but core_responsibilities or work_experience_summary holds
\* content of the input text.
C16_ZeroDefaults ==
    /\ (op = "parse_job_description" /\ ret.via \in FallbackPaths) =>
           /\ ret.value.must_have_skills = <<>>
           /\ ret.value.good_to_have_skills = <<>>
           /\ ret.value.min_years_experience = 0
           /\ ret.value.job_title \in {<<"(parsed", " ", "with", " ", "fallback)">>,
                                       <<"Parsing", " ", "Failed">>, <<"Error">>}
    /\ (op = "parse_candidate_profile" /\ ret.via \in FallbackPaths) =>
           /\ ret.value.skills = <<>>
           /\ ret.value.total_experience_years = 0
           /\ ret.value.candidate_name \in {arg.file_name, <<"Error">>}

\* a resume text whose lines came back in the summary of an error-path
\* record, next to the zero defaults
C16_Witness ==
    /\ op = "parse_candidate_profile"
    /\ ret.via = "except"
    /\ arg.llm.raises
    /\ arg.text = <<"ExperiencedPythonDeveloper", "\n", "x", " ", "y">>
    /\ ret.value.skills = <<>>
    /\ ret.value.total_experience_years = 0
    /\ ret.value.work_experience_summary =
           <<"Parsing Error:", " ">> \o API_ERROR
               \o <<".", " ", "Fallback summary:", " ",
                    "ExperiencedPythonDeveloper", " ", "x", " ", "y">>

-----------------------------------------------------------------------------
(* When process_resumes stops before the loop *)

\* process_resumes has ended, by a return or by an exception
Ended == pc \in {"done", "raised"} /\ job_requirements # NoRecord

\* it returned an empty table and took up no resume
ReturnedEmpty ==
    /\ pc = "done"
    /\ df = <<>>
    /\ results = <<>>
    /\ uploads = uploads0
    /\ \A k \in 1..Len(calls) : calls[k].item = 0

\* C17: process_resumes returns an empty table, with no resume saved,
\* extracted or evaluated, exactly when the parsed job_title contains
\* "Error"; for every other job_title the loop runs and every uploaded
\* resume yields one row.
C17_AbortIffError ==
    Ended =>
        /\ contains_Error(job_requirements.job_title) <=> ReturnedEmpty
        /\ ~contains_Error(job_requirements.job_title) =>
               /\ pc = "done"
               /\ Len(df) = Len(uploaded_files)
               /\ \A i \in 1..Len(uploaded_files) :
                      Cardinality(At(Event("file", "loop", i))) = 1

====
